---- MODULE Spec2Model ----
(***************************************************************************)
(* DALI: the IPX API of src/dali/ipx.c on top of the DOSBox UDP tunnel of  *)
(* src/dali/dbipx.cpp.  The state is the statics of the two files, the     *)
(* caller-owned ECBs, the register pack the interrupt returns and the      *)
(* datagrams handed to the UDP stack.                                      *)
(***************************************************************************)
EXTENDS Integers, Sequences, FiniteSets

(* ------------------------------------------------------------------ *)
(* Program constants.                                                  *)
(* ------------------------------------------------------------------ *)
MAX_OPEN_SOCKETS == 8
MTU == 576
REG_ATTEMPTS == 5
\* sizeof(struct ipx_header): 2+2+1+1+12+12
IPX_HEADER_SIZE == 30
\* first number OpenSocket probes for a request of 0 (0x4002)
AUTO_SOCKET_BASE == 16386
\* the socket number of the registration exchange
REG_SOCKET == 2
\* the UDP header, which the length field of a UDP header counts (RFC 768)
UDP_HEADER_SIZE == 8

IPX_CMD_OPEN_SOCKET == 0
IPX_CMD_CLOSE_SOCKET == 1
IPX_CMD_GET_LOCAL_TGT == 2
IPX_CMD_SEND_PACKET == 3
IPX_CMD_LISTEN_PACKET == 4
IPX_CMD_SCHED_EVENT == 5
IPX_CMD_CANCEL_OP == 6
IPX_CMD_SCHED_SPEC == 7
IPX_CMD_GET_INTERVAL == 8
IPX_CMD_GET_ADDRESS == 9
IPX_CMD_RELINQUISH == 10
IPX_CMD_DISCONNECT == 11
IPX_CMD_GET_PKT_SIZE == 13
IPX_CMD_SPX_INSTALLED == 16
IPX_CMD_GET_MTU == 26
\* a command code the switch of IPX_ISR does not know
IPX_CMD_UNKNOWN == 12

\* return codes written to ax / completion_code
RC_OK == 0
RC_FAIL == 255
RC_TABLE_FULL == 254
MAX_PKT_SIZE_REPLY == 1024

(* ------------------------------------------------------------------ *)
(* Bounds of the model.                                                *)
(* ------------------------------------------------------------------ *)
\* timer ticks per "time unit" (TIMER_TICKS_PER_SEC of the UDP stack)
TicksPerSec == 2
\* datagrams that can be waiting in the receive ring at one poll
MaxBatch == 2
\* data packets the transport double records
MaxSent == 1

(* ------------------------------------------------------------------ *)
(* 16-bit helpers.                                                     *)
(* ------------------------------------------------------------------ *)
WORD == 65536

\* ntohs/htons of the x86 build: swap the two bytes of a 16-bit word
ntohs(x) == (x % 256) * 256 + (x \div 256)

htons(x) == ntohs(x)

\* a 16-bit pattern read as the target's signed int
ToInt16(u) == IF u % WORD >= 32768 THEN (u % WORD) - WORD ELSE u % WORD

NULL == 0

Slots == 1..MAX_OPEN_SOCKETS

\* the caller's ECBs (far pointers es:si), NULL excluded
ECBs == {1, 2}

(* ------------------------------------------------------------------ *)
(* Addresses and datagrams.                                            *)
(* ------------------------------------------------------------------ *)
\* network/node pairs the relay hands out
NetNodes == {[network |-> 0, node |-> 1], [network |-> 1, node |-> 2]}

ZeroAddr == [network |-> 0, node |-> 0, socket |-> 0]

MkAddr(nn, sock) == [network |-> nn.network, node |-> nn.node, socket |-> sock]

\* udp->len of a datagram that carries n bytes of packet data
UdpLen(n) == n + UDP_HEADER_SIZE

\* the bytes of packet data of a datagram whose UDP header says len
DataBytes(p) == p.len - UDP_HEADER_SIZE

\* a received UDP datagram: ntohs(udp->len) and what the code reads at the places
\* of the header fields it looks at (socket fields as they lie in memory, network
\* byte order)
MkPacket(len, srcsock, dest) == [len |-> len, src_socket |-> srcsock, dest |-> dest]

ReplyPackets == {MkPacket(UdpLen(IPX_HEADER_SIZE), htons(REG_SOCKET), MkAddr(nn, htons(REG_SOCKET))) : nn \in NetNodes}

\* the longest datagram the test of line 48 drops, its bytes looking like a reply
ShortPackets == {MkPacket(IPX_HEADER_SIZE - 1, htons(REG_SOCKET), MkAddr(CHOOSE nn \in NetNodes : nn.node = 2, htons(REG_SOCKET)))}

\* datagrams of 29 bytes of packet data: dest lies within the data, the second
\* byte of src.socket behind it, where the receive buffer holds what an earlier
\* datagram left (the 2 of a registration reply, or something else)
RuntPackets ==
  {MkPacket(UdpLen(IPX_HEADER_SIZE - 1), ss, MkAddr(CHOOSE nn \in NetNodes : nn.node = 2, htons(REG_SOCKET))) :
     ss \in {htons(REG_SOCKET), htons(0)}}

VARIABLES
  pc,                \* where main/DBIPX_Connect stands
  error,             \* the reason Error() ended the program, "none" otherwise
  now,               \* the timer tick counter
  delay_start,       \* Delay's start
  i,                 \* DBIPX_Connect's loop counter
  registered,        \* dbipx.cpp static
  dbipx_local_addr,  \* dbipx.cpp global
  rx_callback,       \* dbipx.cpp static
  reg_sent,          \* registration packets handed to Udp::sendUdp
  udp_out,           \* data packets handed to Udp::sendUdp by DBIPX_SendPacket
  open_sockets,      \* ipx.c static table
  ecb,               \* the caller's ECBs: in_use, completion_code, next_ecb
  ip                 \* the register pack the IPX interrupt returned

vars == <<pc, error, now, delay_start, i, registered, dbipx_local_addr, rx_callback,
          reg_sent, udp_out, open_sockets, ecb, ip>>

connectVars == <<pc, error, now, delay_start, i, reg_sent>>

sessionVars == <<registered, dbipx_local_addr>>

ipxVars == <<open_sockets, ecb, ip, udp_out>>

\* what the caller left in a register that carries no argument
RegJunk == CHOOSE v \in {170} : TRUE

Init ==
  /\ pc = "start"
  /\ error = "none"
  /\ now = 0
  /\ delay_start = 0
  /\ i = 0
  /\ registered = 0
  /\ dbipx_local_addr = ZeroAddr
  /\ rx_callback = NULL
  /\ reg_sent = 0
  /\ udp_out = <<>>
  /\ open_sockets = [s \in Slots |-> [socket |-> 0, ecbs |-> NULL]]
  /\ ecb = [e \in ECBs |-> [in_use |-> 0, completion_code |-> 0, next_ecb |-> NULL]]
  /\ ip = [ax |-> RegJunk, cx |-> RegJunk, dx |-> 0]

(* ------------------------------------------------------------------ *)
(* dbipx.cpp: the receive callback and the poll.                       *)
(* ------------------------------------------------------------------ *)
Session(reg, addr) == [registered |-> reg, addr |-> addr]

\* the test of line 54
IsRegistrationReply(p) == ntohs(p.src_socket) = REG_SOCKET /\ ntohs(p.dest.socket) = REG_SOCKET

\* the test of line 48
TooShort(p) == p.len < IPX_HEADER_SIZE

\* PacketReceived assigning the outcome of the test to registered
PacketReceived_AssignsTest(s, p) ==
  IF TooShort(p) THEN s
  ELSE IF IsRegistrationReply(p) THEN Session(1, p.dest)
  ELSE Session(0, s.addr)

\* PacketReceived: the session after one datagram. rx_callback is never set
\* (DBIPX_SetCallback has no caller), so a data packet changes nothing.
PacketReceived(s, p) ==
  IF TooShort(p) THEN s
  ELSE IF IsRegistrationReply(p) THEN Session(1, p.dest)
  ELSE s

\* DBIPX_Poll: every datagram waiting in the ring goes through PacketReceived, in order
RECURSIVE DBIPX_Poll(_, _)
DBIPX_Poll(s, batch) ==
  IF batch = <<>> THEN s
  ELSE DBIPX_Poll(PacketReceived(s, Head(batch)), Tail(batch))

(* ------------------------------------------------------------------ *)
(* ipx.c: the socket table.                                            *)
(* ------------------------------------------------------------------ *)
\* FindSocket: the first slot holding num, NULL when none does
FindSocket(tbl, num) ==
  IF \E s \in Slots : tbl[s].socket = num
  THEN CHOOSE s \in Slots : tbl[s].socket = num /\ \A t \in Slots : t < s => tbl[t].socket # num
  ELSE NULL

\* a probe that steps over the candidate following each open one
RECURSIVE ProbeSocket_SkipsTwo(_, _)
ProbeSocket_SkipsTwo(tbl, socknum) ==
  IF FindSocket(tbl, socknum % WORD) # NULL THEN ProbeSocket_SkipsTwo(tbl, socknum + 2) ELSE socknum

\* a probe that counts down
RECURSIVE ProbeSocket_CountsDown(_, _)
ProbeSocket_CountsDown(tbl, socknum) ==
  IF FindSocket(tbl, socknum % WORD) # NULL THEN ProbeSocket_CountsDown(tbl, socknum - 1) ELSE socknum

\* the probe of lines 66-69; the argument of FindSocket is an unsigned short
RECURSIVE ProbeSocket(_, _)
ProbeSocket(tbl, socknum) ==
  IF FindSocket(tbl, socknum % WORD) # NULL THEN ProbeSocket(tbl, socknum + 1) ELSE socknum

\* OpenSocket looking for a free slot before it looks for the number
OpenSocket_FullFirst(tbl, regs) ==
  LET req == ntohs(regs.dx)
      socknum == IF req = 0 THEN ProbeSocket(tbl, AUTO_SOCKET_BASE) ELSE req
      sock == FindSocket(tbl, 0)
  IN IF sock = NULL
       THEN [tbl |-> tbl, regs |-> [regs EXCEPT !.ax = RC_TABLE_FULL]]
     ELSE IF FindSocket(tbl, socknum % WORD) # NULL
       THEN [tbl |-> tbl, regs |-> [regs EXCEPT !.ax = RC_FAIL]]
     ELSE [tbl |-> [tbl EXCEPT ![sock] = [socket |-> socknum % WORD, ecbs |-> NULL]],
           regs |-> [regs EXCEPT !.ax = RC_OK, !.dx = htons(socknum % WORD)]]

\* OpenSocket without the test of lines 72-76
OpenSocket_NoDuplicateTest(tbl, regs) ==
  LET req == ntohs(regs.dx)
      socknum == IF req = 0 THEN ProbeSocket(tbl, AUTO_SOCKET_BASE) ELSE req
      sock == FindSocket(tbl, 0)
  IN IF sock = NULL
       THEN [tbl |-> tbl, regs |-> [regs EXCEPT !.ax = RC_TABLE_FULL]]
     ELSE [tbl |-> [tbl EXCEPT ![sock] = [socket |-> socknum % WORD, ecbs |-> NULL]],
           regs |-> [regs EXCEPT !.ax = RC_OK, !.dx = htons(socknum % WORD)]]

\* OpenSocket: the table and the registers it leaves
OpenSocket(tbl, regs) ==
  LET req == ntohs(regs.dx)
      socknum == IF req = 0 THEN ProbeSocket(tbl, AUTO_SOCKET_BASE) ELSE req
      sock == FindSocket(tbl, 0)
  IN IF FindSocket(tbl, socknum % WORD) # NULL
       THEN [tbl |-> tbl, regs |-> [regs EXCEPT !.ax = RC_FAIL]]
     ELSE IF sock = NULL
       THEN [tbl |-> tbl, regs |-> [regs EXCEPT !.ax = RC_TABLE_FULL]]
     ELSE [tbl |-> [tbl EXCEPT ![sock] = [socket |-> socknum % WORD, ecbs |-> NULL]],
           regs |-> [regs EXCEPT !.ax = RC_OK, !.dx = htons(socknum % WORD)]]

\* CloseSocket emptying the whole table
CloseSocket_ClearsTable(tbl, num) ==
  IF num = 0 THEN tbl
  ELSE IF FindSocket(tbl, num) = NULL THEN tbl
  ELSE [s \in Slots |-> [tbl[s] EXCEPT !.socket = 0]]

\* CloseSocket: the table it leaves
CloseSocket(tbl, num) ==
  IF num = 0 THEN tbl
  ELSE IF FindSocket(tbl, num) = NULL THEN tbl
  ELSE [tbl EXCEPT ![FindSocket(tbl, num)].socket = 0]

(* ------------------------------------------------------------------ *)
(* ipx.c: send and listen.                                             *)
(* ------------------------------------------------------------------ *)
\* "size += fragments[i].size" on the target: int and unsigned short are 16 bits
\* wide, the sum is taken modulo 2^16 and read back as a signed int
RECURSIVE SumSizes(_, _)
SumSizes(size, frags) ==
  IF frags = <<>> THEN size
  ELSE SumSizes(ToInt16(size + WORD + Head(frags)), Tail(frags))

\* the bytes the copy loop of lines 125-129 writes from &sendbuf[0] on
RECURSIVE Copied(_)
Copied(frags) == IF frags = <<>> THEN 0 ELSE Head(frags) + Copied(Tail(frags))

\* the copy loop writes behind sendbuf[MTU]: the behaviour of the program is
\* undefined from there on
Overrun(frags) == Copied(frags) > MTU

\* what open_sockets, which follows sendbuf among the statics, holds after such
\* a copy: in a build that lays the table out of reach what it held, else the
\* bytes of the caller's fragment (zeroes, or a pattern of six bytes repeated: a
\* socket number and a far pointer to an ECB)
Clobbered(tbl) ==
  {tbl,
   [s \in Slots |-> [socket |-> 0, ecbs |-> NULL]],
   [s \in Slots |-> [socket |-> AUTO_SOCKET_BASE, ecbs |-> 1]]}

\* the test of line 118 with >= for >
TooLarge_AtMTU(size) == size >= MTU

\* the test of line 118
TooLarge(size) == size > MTU

\* what lines 131-138 hand to DBIPX_SendPacket: the byte count and the header
\* fields SendPacket has overwritten in sendbuf
SentPacket(addr, sockfield, size) ==
  [len |-> (size + WORD) % WORD,
   length |-> ntohs((size + WORD) % WORD),
   src |-> [network |-> addr.network, node |-> addr.node, socket |-> sockfield]]

\* a header field that lies behind the last byte of a datagram
Absent == 0 - 1

\* the first len bytes of the buffer, which Udp::sendUdp puts on the wire: a
\* header field is in the datagram when its last byte is (length ends at byte 4,
\* src.network at 22, src.node at 28, src.socket at 30)
Transmitted(pkt) ==
  [len |-> pkt.len,
   length |-> IF pkt.len >= 4 THEN pkt.length ELSE Absent,
   src |-> [network |-> IF pkt.len >= 22 THEN pkt.src.network ELSE Absent,
            node |-> IF pkt.len >= 28 THEN pkt.src.node ELSE Absent,
            socket |-> IF pkt.len >= IPX_HEADER_SIZE THEN pkt.src.socket ELSE Absent]]

\* DBIPX_SendPacket: one more datagram for the UDP stack
DBIPX_SendPacket(out, pkt) == Append(out, Transmitted(pkt))

\* SendPacket on ECB e, whose socket field and fragment list the caller wrote
SendPacket(ecbs, out, addr, e, sockfield, frags) ==
  LET size == SumSizes(0, frags) IN
  IF TooLarge(size)
    THEN [ecb |-> [ecbs EXCEPT ![e].in_use = 0, ![e].completion_code = RC_FAIL],
          out |-> out, ax |-> RC_FAIL, overrun |-> FALSE]
    ELSE [ecb |-> [ecbs EXCEPT ![e].in_use = 0, ![e].completion_code = RC_OK],
          out |-> DBIPX_SendPacket(out, SentPacket(addr, sockfield, size)), ax |-> RC_OK,
          overrun |-> Overrun(frags)]

\* ListenPacket on ECB e, whose socket field the caller wrote
ListenPacket(tbl, ecbs, e, sockfield) ==
  LET sock == FindSocket(tbl, ntohs(sockfield)) IN
  IF sock = NULL
    THEN [tbl |-> tbl, ecb |-> [ecbs EXCEPT ![e].completion_code = RC_FAIL], ax |-> RC_FAIL]
    ELSE [tbl |-> [tbl EXCEPT ![sock].ecbs = e],
          ecb |-> [ecbs EXCEPT ![e].next_ecb = tbl[sock].ecbs, ![e].in_use = 1],
          ax |-> RC_OK]

(* ------------------------------------------------------------------ *)
(* ipx.c: the interrupt handler.                                       *)
(* ------------------------------------------------------------------ *)
\* one call of the IPX interrupt: bx, dx and es:si as the caller loaded them, and
\* the socket field and fragment list the caller wrote into the ECB at es:si
Call(bx, dx, essi, sockfield, frags) ==
  [bx |-> bx, dx |-> dx, essi |-> essi, socket |-> sockfield, frags |-> frags]

EntryRegs(call) == [ax |-> RegJunk, cx |-> RegJunk, dx |-> call.dx]

\* the switch of IPX_ISR, for the session as DBIPX_Poll left it
Dispatch(call, s) ==
  LET regs == EntryRegs(call)
      keep == [tbl |-> open_sockets, ecb |-> ecb, out |-> udp_out, regs |-> regs, overrun |-> FALSE]
  IN CASE call.bx = IPX_CMD_OPEN_SOCKET ->
            LET r == OpenSocket(open_sockets, regs) IN [keep EXCEPT !.tbl = r.tbl, !.regs = r.regs]
       [] call.bx = IPX_CMD_CLOSE_SOCKET ->
            [keep EXCEPT !.tbl = CloseSocket(open_sockets, ntohs(call.dx))]
       [] call.bx = IPX_CMD_GET_LOCAL_TGT ->
            [keep EXCEPT !.regs.ax = 0]
       [] call.bx = IPX_CMD_SEND_PACKET ->
            LET r == SendPacket(ecb, udp_out, s.addr, call.essi, call.socket, call.frags)
            IN [keep EXCEPT !.ecb = r.ecb, !.out = r.out, !.regs.ax = r.ax, !.overrun = r.overrun]
       [] call.bx = IPX_CMD_LISTEN_PACKET ->
            LET r == ListenPacket(open_sockets, ecb, call.essi, call.socket)
            IN [keep EXCEPT !.tbl = r.tbl, !.ecb = r.ecb, !.regs.ax = r.ax]
       [] call.bx = IPX_CMD_GET_PKT_SIZE ->
            [keep EXCEPT !.regs.ax = MAX_PKT_SIZE_REPLY, !.regs.cx = 0]
       [] call.bx = IPX_CMD_SPX_INSTALLED ->
            [keep EXCEPT !.regs.ax = 0]
       [] call.bx = IPX_CMD_GET_MTU ->
            [keep EXCEPT !.regs.ax = MTU, !.regs.cx = 0]
       [] OTHER -> keep

\* IPX_ISR running the command before it polls
IPX_ISR_CommandFirst(call, batch) ==
  /\ pc = "hooked"
  /\ LET s == DBIPX_Poll(Session(registered, dbipx_local_addr), batch)
         r == Dispatch(call, Session(registered, dbipx_local_addr))
     IN /\ Len(r.out) <= MaxSent
        /\ registered' = s.registered
        /\ dbipx_local_addr' = s.addr
        /\ open_sockets' \in (IF r.overrun THEN Clobbered(r.tbl) ELSE {r.tbl})
        /\ ecb' = r.ecb
        /\ udp_out' = r.out
        /\ ip' = r.regs
  /\ UNCHANGED <<connectVars, rx_callback>>

\* IPX_ISR: DBIPX_Poll on the datagrams waiting, then the command
IPX_ISR(call, batch) ==
  /\ pc = "hooked"
  /\ LET s == DBIPX_Poll(Session(registered, dbipx_local_addr), batch)
         r == Dispatch(call, s)
     IN /\ Len(r.out) <= MaxSent
        /\ registered' = s.registered
        /\ dbipx_local_addr' = s.addr
        /\ open_sockets' \in (IF r.overrun THEN Clobbered(r.tbl) ELSE {r.tbl})
        /\ ecb' = r.ecb
        /\ udp_out' = r.out
        /\ ip' = r.regs
  /\ UNCHANGED <<connectVars, rx_callback>>

(* ------------------------------------------------------------------ *)
(* dbipx.cpp and dali.c: start-up and the registration handshake.      *)
(* ------------------------------------------------------------------ *)
\* the argument of the Delay call that is running
DelayTicks == IF pc = "delay_first" THEN TicksPerSec ELSE 1

InDelay == pc \in {"delay_first", "delay_round"}

\* Timer_diff(start, TIMER_GET_CURRENT())
TimerDiff == now - delay_start

\* the condition of Delay's while loop
DelayCond == TimerDiff < DelayTicks

\* the condition of line 137 without its test of registered
LoopCond_NoEarlyExit == i < REG_ATTEMPTS * TicksPerSec

\* the condition of the for loop of line 137
LoopCond == registered = 0 /\ i < REG_ATTEMPTS * TicksPerSec

\* a resend on every turn of the loop
RoundStart_EveryTick(k) == k >= 0

\* the test of line 138
RoundStart(k) == (k % TicksPerSec) = 0

\* SendRegistration: one more control packet for the UDP stack
SendRegistration(n) == n + 1

\* DBIPX_Connect up to its first Delay: the stack and the resolver are external
\* and either come up (ok) or end the program through Error()
DBIPX_Connect(ok) ==
  /\ pc = "start"
  /\ IF ok
       THEN /\ registered' = 0
            /\ pc' = "delay_first"
            /\ delay_start' = now
            /\ error' = error
       ELSE /\ pc' = "exit"
            /\ error' = "init"
            /\ UNCHANGED <<registered, delay_start>>
  /\ UNCHANGED <<now, i, dbipx_local_addr, rx_callback, reg_sent, ipxVars>>

\* the timer interrupt, as Delay's loop observes it
Tick ==
  /\ InDelay
  /\ DelayCond
  /\ now' = now + 1
  /\ UNCHANGED <<pc, error, delay_start, i, reg_sent, sessionVars, rx_callback, ipxVars>>

\* one turn of Delay's loop: DBIPX_Poll on the datagrams waiting
DelayPoll(batch) ==
  /\ InDelay
  /\ DelayCond
  /\ LET s == DBIPX_Poll(Session(registered, dbipx_local_addr), batch)
     IN /\ registered' = s.registered
        /\ dbipx_local_addr' = s.addr
  /\ UNCHANGED <<connectVars, rx_callback, ipxVars>>

\* Delay returns: to the loop test, after ++i when it was the Delay(1) of the body
DelayReturn ==
  /\ InDelay
  /\ ~DelayCond
  /\ i' = IF pc = "delay_round" THEN i + 1 ELSE i
  /\ pc' = "loop"
  /\ UNCHANGED <<error, now, delay_start, reg_sent, sessionVars, rx_callback, ipxVars>>

\* the body of the for loop up to its Delay(1)
LoopIter ==
  /\ pc = "loop"
  /\ LoopCond
  /\ reg_sent' = IF RoundStart(i) THEN SendRegistration(reg_sent) ELSE reg_sent
  /\ pc' = "delay_round"
  /\ delay_start' = now
  /\ UNCHANGED <<error, now, i, sessionVars, rx_callback, ipxVars>>

\* the loop ends: Error() when not registered, else DBIPX_Connect returns
LoopExit ==
  /\ pc = "loop"
  /\ ~LoopCond
  /\ IF registered = 0
       THEN pc' = "exit" /\ error' = "noresponse"
       ELSE pc' = "connected" /\ error' = error
  /\ UNCHANGED <<now, delay_start, i, reg_sent, sessionVars, rx_callback, ipxVars>>

\* main after DBIPX_Connect: the interrupt vector is hooked, callers may call
HookIPXVector ==
  /\ pc = "connected"
  /\ pc' = "hooked"
  /\ UNCHANGED <<error, now, delay_start, i, reg_sent, sessionVars, rx_callback, ipxVars>>

(* ------------------------------------------------------------------ *)
(* Inputs.                                                             *)
(* ------------------------------------------------------------------ *)
\* socket numbers callers ask for by name: 0x4003 (inside the auto-assigned
\* range) and 0x1234 (outside it)
SOCK_A == AUTO_SOCKET_BASE + 1

SOCK_B == 18 * 256 + 52

\* a data packet for SOCK_A whose source socket alone looks like a reply's
DataPackets == {MkPacket(UdpLen(IPX_HEADER_SIZE), htons(REG_SOCKET), MkAddr(CHOOSE nn \in NetNodes : nn.node = 1, htons(SOCK_A)))}

Packets == ReplyPackets \cup ShortPackets \cup DataPackets

\* what can wait in the receive ring at one poll: up to MaxBatch datagrams
BatchesOf(pkts) == UNION {[1..n -> pkts] : n \in 0..MaxBatch}

Batches == BatchesOf(Packets)

\* traffic of a relay that has stopped answering registrations
DataBatches == BatchesOf(ShortPackets \cup DataPackets)

\* traffic of a relay that still answers registrations
ReplyBatches == BatchesOf(ReplyPackets \cup ShortPackets)

\* data packets for SOCK_A alone
InboundBatches == BatchesOf(DataPackets)

\* registration replies alone
AnswerBatches == BatchesOf(ReplyPackets)

\* datagrams that carry less than a header
UnderHeaderBatches == BatchesOf(ShortPackets \cup RuntPackets)

OpenCalls(nums) == {Call(IPX_CMD_OPEN_SOCKET, htons(n), NULL, 0, <<>>) : n \in nums}

CloseCalls(nums) == {Call(IPX_CMD_CLOSE_SOCKET, htons(n), NULL, 0, <<>>) : n \in nums}

SendCalls(es, nums, fragsets) ==
  {Call(IPX_CMD_SEND_PACKET, 0, e, htons(n), f) : e \in es, n \in nums, f \in fragsets}

ListenCalls(es, nums) == {Call(IPX_CMD_LISTEN_PACKET, 0, e, htons(n), <<>>) : e \in es, n \in nums}

StubCalls(cmds) == {Call(c, 0, NULL, 0, <<>>) : c \in cmds}

\* fragment lists of send requests
FragLists == {<<>>, <<29>>, <<30>>, <<576>>, <<577>>, <<30, 546>>, <<30, 547>>}

\* callers that open and close sockets
TableCalls ==
  OpenCalls({0, SOCK_A, SOCK_B}) \cup CloseCalls({0, SOCK_A}) \cup StubCalls({IPX_CMD_GET_MTU})

\* callers that open sockets by name and post receive buffers
QueueCalls ==
  OpenCalls({SOCK_A}) \cup CloseCalls({0, SOCK_A})
    \cup ListenCalls(ECBs, {0, SOCK_A, SOCK_B}) \cup StubCalls({IPX_CMD_RELINQUISH})

\* callers that send
SendingCalls ==
  SendCalls({1}, {SOCK_A}, FragLists) \cup StubCalls({IPX_CMD_GET_MTU, IPX_CMD_RELINQUISH})

\* the commands whose case of the switch touches neither the table nor an ECB,
\* and a code the switch does not know
StubCmds ==
  {IPX_CMD_GET_LOCAL_TGT, IPX_CMD_SCHED_EVENT, IPX_CMD_CANCEL_OP, IPX_CMD_SCHED_SPEC,
   IPX_CMD_GET_INTERVAL, IPX_CMD_GET_ADDRESS, IPX_CMD_RELINQUISH, IPX_CMD_DISCONNECT,
   IPX_CMD_GET_PKT_SIZE, IPX_CMD_SPX_INSTALLED, IPX_CMD_GET_MTU, IPX_CMD_UNKNOWN}

\* callers that use every command of the API
ApiCalls ==
  OpenCalls({SOCK_A}) \cup CloseCalls({SOCK_A})
    \cup ListenCalls({1}, {SOCK_A})
    \cup SendCalls({2}, {SOCK_A}, {<<IPX_HEADER_SIZE>>})
    \cup StubCalls(StubCmds)

\* fragment lists whose sizes do not fit the 16-bit accumulator of SendPacket, or
\* read as a negative int
WrapFragLists == {<<IPX_HEADER_SIZE>>, <<MTU + 1>>, <<WORD - 1, 2>>, <<WORD - 1, MTU + 1>>, <<WORD \div 2>>}

\* callers that send with fragment sizes of the full 16 bits
WrapCalls ==
  OpenCalls({SOCK_A}) \cup SendCalls({1}, {SOCK_A}, WrapFragLists) \cup StubCalls({IPX_CMD_RELINQUISH})

\* callers that fill the table and use one socket of it
MixedCalls ==
  OpenCalls({0, SOCK_A}) \cup CloseCalls({SOCK_A})
    \cup ListenCalls({1}, {SOCK_A})
    \cup SendCalls({2}, {SOCK_A}, {<<IPX_HEADER_SIZE>>})

\* callers that post one receive buffer and then wait for it
WaitingCalls ==
  OpenCalls({SOCK_A}) \cup ListenCalls({1}, {SOCK_A}) \cup StubCalls({IPX_CMD_RELINQUISH})

\* callers that post receive buffers on two sockets and send
PostCalls ==
  OpenCalls({SOCK_A, SOCK_B}) \cup CloseCalls({0, SOCK_A})
    \cup ListenCalls({1}, {SOCK_A}) \cup ListenCalls({2}, {SOCK_A, SOCK_B})
    \cup SendCalls({1}, {SOCK_A}, {<<IPX_HEADER_SIZE>>})

\* a caller that keeps the rule of the API: an ECB in use is not submitted again
Idle(call) == call.essi # NULL => ecb[call.essi].in_use = 0

(* ------------------------------------------------------------------ *)
(* Specifications.                                                     *)
(* ------------------------------------------------------------------ *)
Handshake ==
  \/ \E ok \in BOOLEAN : DBIPX_Connect(ok)
  \/ Tick
  \/ \E batch \in Batches : DelayPoll(batch)
  \/ DelayReturn
  \/ LoopIter
  \/ LoopExit

Startup == Handshake \/ HookIPXVector

\* the program with callers that open and close sockets
Next ==
  \/ Startup
  \/ \E call \in TableCalls, batch \in DataBatches : IPX_ISR(call, batch)

Spec == Init /\ [][Next]_vars

\* the program with callers that post receive buffers
QueueNext ==
  \/ Startup
  \/ \E call \in QueueCalls, batch \in DataBatches : Idle(call) /\ IPX_ISR(call, batch)

QueueSpec == Init /\ [][QueueNext]_vars

\* the program with callers that send, the relay still answering registrations
SendNext ==
  \/ Startup
  \/ \E call \in SendingCalls, batch \in ReplyBatches : IPX_ISR(call, batch)

SendSpec == Init /\ [][SendNext]_vars

\* the program with callers that use every command, the relay still answering
\* registrations
ApiNext ==
  \/ Startup
  \/ \E call \in ApiCalls, batch \in AnswerBatches : Idle(call) /\ IPX_ISR(call, batch)

ApiSpec == Init /\ [][ApiNext]_vars

\* the program with callers that post receive buffers on two sockets
PostNext ==
  \/ Startup
  \/ \E call \in PostCalls, batch \in InboundBatches : Idle(call) /\ IPX_ISR(call, batch)

PostSpec == Init /\ [][PostNext]_vars

\* the program with datagrams arriving that carry less than a header, during the
\* handshake and after it
RuntNext ==
  \/ Startup
  \/ \E batch \in UnderHeaderBatches : DelayPoll(batch)
  \/ \E call \in WaitingCalls, batch \in UnderHeaderBatches : Idle(call) /\ IPX_ISR(call, batch)

RuntSpec == Init /\ [][RuntNext]_vars

\* the program with callers that send with fragment sizes of the full 16 bits
WrapNext ==
  \/ Startup
  \/ \E call \in WrapCalls, batch \in AnswerBatches : Idle(call) /\ IPX_ISR(call, batch)

WrapSpec == Init /\ [][WrapNext]_vars

\* the program with callers that fill the table, post receive buffers and send
MixedNext ==
  \/ Startup
  \/ \E call \in MixedCalls, batch \in InboundBatches : Idle(call) /\ IPX_ISR(call, batch)

MixedSpec == Init /\ [][MixedNext]_vars

\* the handshake alone, with the timer running and the program making progress
ConnectSpec ==
  /\ Init
  /\ [][Handshake]_vars
  /\ WF_vars(Tick)
  /\ WF_vars(DelayReturn)
  /\ WF_vars(LoopIter)
  /\ WF_vars(LoopExit)
  /\ WF_vars(\E ok \in BOOLEAN : DBIPX_Connect(ok))

(* ------------------------------------------------------------------ *)
(* Properties.                                                         *)
(* ------------------------------------------------------------------ *)
\* the numbers of the open sockets
OpenNumbers(tbl) == {tbl[s].socket : s \in Slots} \ {0}

IsOpen(tbl, n) == n \in OpenNumbers(tbl)

\* the smallest number from 0x4002 up that is not open
SmallestFree(tbl) ==
  CHOOSE n \in AUTO_SOCKET_BASE..(AUTO_SOCKET_BASE + MAX_OPEN_SOCKETS) :
    /\ ~IsOpen(tbl, n)
    /\ \A m \in AUTO_SOCKET_BASE..(n - 1) : IsOpen(tbl, m)

OpenCall(n) == Call(IPX_CMD_OPEN_SOCKET, htons(n), NULL, 0, <<>>)

\* the step is a call of the interrupt with these arguments: the hook is in place
\* and the step leaves what the command leaves, given the session as the poll of
\* that call left it (the session of the state after the step)
Called(call) ==
  /\ pc = "hooked"
  /\ UNCHANGED <<connectVars, rx_callback>>
  /\ LET r == Dispatch(call, Session(registered', dbipx_local_addr'))
     IN /\ ip' = r.regs
        /\ open_sockets' = r.tbl
        /\ ecb' = r.ecb
        /\ udp_out' = r.out

\* C1: every successful OpenSocket(0) returns the smallest number >= 0x4002 that
\* is not open when it is called, 0x4002 on an empty table, and opens it.
C1_AutoAssign ==
  [][(ip'.ax = RC_OK /\ Called(OpenCall(0))) =>
         /\ ntohs(ip'.dx) = SmallestFree(open_sockets)
         /\ OpenNumbers(open_sockets) = {} => ntohs(ip'.dx) = AUTO_SOCKET_BASE
         /\ OpenNumbers(open_sockets') = OpenNumbers(open_sockets) \cup {SmallestFree(open_sockets)}]_vars

\* an auto-assignment that skipped SOCK_A, opened by name after it had been closed
C1_Witness ==
  /\ ip.ax = RC_OK
  /\ ntohs(ip.dx) = AUTO_SOCKET_BASE + 3
  /\ OpenNumbers(open_sockets) = {AUTO_SOCKET_BASE, SOCK_A, AUTO_SOCKET_BASE + 2, AUTO_SOCKET_BASE + 3, SOCK_B}
  /\ FindSocket(open_sockets, SOCK_A) > FindSocket(open_sockets, SOCK_B)

TableIsFull(tbl) == Cardinality(OpenNumbers(tbl)) = MAX_OPEN_SOCKETS

\* C3 as stated: with 8 sockets open OpenSocket answers TableFull for every
\* requested number and leaves the table alone.
C3_FullForEveryNumber ==
  [][\A n \in {0, SOCK_A, SOCK_B} :
       (TableIsFull(open_sockets) /\ Called(OpenCall(n))) =>
         (ip'.ax = RC_TABLE_FULL /\ open_sockets' = open_sockets)]_vars

\* C3 amended: with 8 sockets open OpenSocket leaves the table alone and answers
\* TableFull for 0 and for every number that is not open, DuplicateSocket for a
\* number that is open.
C3_FullTable ==
  [][\A n \in {0, SOCK_A, SOCK_B} :
       (TableIsFull(open_sockets) /\ Called(OpenCall(n))) =>
         /\ open_sockets' = open_sockets
         /\ ip'.ax = IF IsOpen(open_sockets, n) THEN RC_FAIL ELSE RC_TABLE_FULL]_vars

\* a full table that has just refused a number that is not open
C3_Witness ==
  /\ TableIsFull(open_sockets)
  /\ ~IsOpen(open_sockets, SOCK_B)
  /\ ip.ax = RC_TABLE_FULL
  /\ ip.dx = htons(SOCK_B)

\* C2: OpenSocket(n), n # 0, while n is open answers DuplicateSocket and leaves
\* the socket table and every receive queue (n's among them) as they were.
C2_DuplicateOpen ==
  [][(IsOpen(open_sockets, SOCK_A) /\ Called(OpenCall(SOCK_A))) =>
         /\ ip'.ax = RC_FAIL
         /\ open_sockets' = open_sockets
         /\ ecb' = ecb]_vars

\* a refused second open of SOCK_A, whose queue holds both ECBs
C2_Witness ==
  /\ ip.ax = RC_FAIL
  /\ ip.dx = htons(SOCK_A)
  /\ IsOpen(open_sockets, SOCK_A)
  /\ open_sockets[FindSocket(open_sockets, SOCK_A)].ecbs = 2
  /\ ecb[2].next_ecb = 1

\* the sum of the fragment sizes, unbounded
RECURSIVE TrueSum(_)
TrueSum(frags) == IF frags = <<>> THEN 0 ELSE Head(frags) + TrueSum(Tail(frags))

\* C4: a send whose fragments sum to 576 bytes hands exactly one packet of 576
\* bytes to the transport and completes the ECB with Success; one whose fragments
\* sum to 577 answers TooLarge, completes the ECB and hands nothing over.
C4_SendAtMTU ==
  [][\A call \in SendCalls({1}, {SOCK_A}, FragLists) :
       (TrueSum(call.frags) \in {MTU, MTU + 1} /\ Called(call)) =>
         IF TrueSum(call.frags) = MTU
           THEN /\ ip'.ax = RC_OK
                /\ Len(udp_out') = Len(udp_out) + 1
                /\ SubSeq(udp_out', 1, Len(udp_out)) = udp_out
                /\ udp_out'[Len(udp_out')].len = MTU
                /\ ecb'[call.essi].completion_code = RC_OK
                /\ ecb'[call.essi].in_use = 0
           ELSE /\ ip'.ax = RC_FAIL
                /\ udp_out' = udp_out
                /\ ecb'[call.essi].completion_code = RC_FAIL
                /\ ecb'[call.essi].in_use = 0]_vars

\* a packet of 576 bytes was sent, and a later send was refused
C4_Witness ==
  /\ Len(udp_out) = 1
  /\ udp_out[1].len = MTU
  /\ ip.ax = RC_FAIL
  /\ ecb[1].completion_code = RC_FAIL
  /\ ecb[1].in_use = 0

\* C5: without a reply the handshake ends, and it ends in Error() after exactly
\* REG_ATTEMPTS rounds of one time unit, one control packet sent at the start of
\* each round and none besides; it never returns unregistered.
C5_RegistrationTimeout ==
  /\ []((pc = "exit" /\ error = "noresponse") =>
         /\ reg_sent = REG_ATTEMPTS
         /\ i = REG_ATTEMPTS * TicksPerSec
         /\ now = (REG_ATTEMPTS + 1) * TicksPerSec
         /\ registered = 0)
  /\ [](reg_sent <= REG_ATTEMPTS)
  /\ [](pc = "loop" => reg_sent * TicksPerSec = i + ((TicksPerSec - (i % TicksPerSec)) % TicksPerSec))
  /\ [](pc = "connected" => registered = 1)
  /\ <>(registered = 1 \/ pc = "exit")

\* the handshake has timed out
C5_Witness == pc = "exit" /\ error = "noresponse" /\ registered = 0 /\ reg_sent = REG_ATTEMPTS

\* the dest of the last datagram of the batch that is a registration reply
LastReplyDest(batch) ==
  LET k == CHOOSE j \in 1..Len(batch) :
             batch[j] \in ReplyPackets /\ \A m \in (j + 1)..Len(batch) : batch[m] \notin ReplyPackets
  IN batch[k].dest

HasReply(batch) == \E j \in 1..Len(batch) : batch[j] \in ReplyPackets

\* C6: a poll of the handshake that finds a registration reply leaves the session
\* registered with the reply's dest as local address; from then on no control
\* packet is sent, and DBIPX_Connect returns, registered.
C6_RegistrationSuccess ==
  /\ [][\A batch \in Batches :
          (HasReply(batch) /\ DelayPoll(batch)) =>
            (registered' = 1 /\ dbipx_local_addr' = LastReplyDest(batch))]_vars
  /\ [][registered = 1 => reg_sent' = reg_sent]_vars
  /\ [](pc = "connected" => (registered = 1 /\ \E p \in ReplyPackets : dbipx_local_addr = p.dest))
  /\ (registered = 1 ~> pc = "connected")

\* DBIPX_Connect has returned after the reply to the third control packet
C6_Witness == pc = "connected" /\ registered = 1 /\ reg_sent = 3 /\ dbipx_local_addr.node = 2

\* calls whose command touches neither the table nor an ECB
NoOpCall == Call(IPX_CMD_RELINQUISH, 0, NULL, 0, <<>>)

\* C7: with ECB 1 and then ECB 2 posted on the open socket SOCK_A, a poll that
\* finds one data packet for SOCK_A completes ECB 2 (Success, not in use, off the
\* queue) and leaves ECB 1 queued and in use.
C7_LifoDelivery ==
  [][\A p \in DataPackets :
       LET s == FindSocket(open_sockets, SOCK_A) IN
       (/\ pc = "hooked"
        /\ s # NULL
        /\ ntohs(p.dest.socket) = SOCK_A
        /\ open_sockets[s].ecbs = 2
        /\ ecb[2].next_ecb = 1
        /\ ecb[1].in_use = 1 /\ ecb[2].in_use = 1
        /\ IPX_ISR(NoOpCall, <<p>>)) =>
         /\ ecb'[2].in_use = 0
         /\ ecb'[2].completion_code = RC_OK
         /\ open_sockets'[s].ecbs = 1
         /\ ecb'[1].in_use = 1]_vars

\* C8: once the session is registered, the network and node of the local address
\* never change.
C8_AddressImmutable ==
  [][registered = 1 =>
       /\ dbipx_local_addr'.network = dbipx_local_addr.network
       /\ dbipx_local_addr'.node = dbipx_local_addr.node]_vars

\* C9: registered never goes back from true to false.
C9_RegisteredMonotone == [][registered = 1 => registered' = 1]_vars

\* the session is still registered after a call of the interrupt whose poll found
\* datagrams
C9_Witness == pc = "hooked" /\ registered = 1 /\ ip.ax = MTU /\ Len(udp_out) = 1

\* C10: ListenForPacket on a number that is not open (0 included) answers failure,
\* sets the completion code to Failure, leaves in_use alone and links nothing.
C10_ListenNotOpen ==
  [][\A call \in ListenCalls(ECBs, {0, SOCK_A, SOCK_B}) :
       (~IsOpen(open_sockets, ntohs(call.socket)) /\ Called(call)) =>
         /\ ip'.ax = RC_FAIL
         /\ ecb'[call.essi].completion_code = RC_FAIL
         /\ ecb'[call.essi].in_use = ecb[call.essi].in_use
         /\ open_sockets' = open_sockets
         /\ \A e \in ECBs : ecb'[e].next_ecb = ecb[e].next_ecb]_vars

\* the session after the datagrams of the batch, told from the batch alone: the
\* last registration reply in it decides, a batch without one changes nothing
Drained(batch) ==
  IF HasReply(batch) THEN Session(1, LastReplyDest(batch))
  ELSE Session(registered, dbipx_local_addr)

\* C11: every call of the interrupt, whatever its command code, has all the
\* datagrams waiting processed before the command acts: the step is the command
\* acting on the session as the poll left it, that session is the one after the
\* whole batch, and a send builds its source address from it.
C11_PollBeforeCommand ==
  [][pc = "hooked" =>
       /\ \E call \in ApiCalls : Called(call)
       /\ \A batch \in AnswerBatches :
            Session(registered', dbipx_local_addr') = DBIPX_Poll(Session(registered, dbipx_local_addr), batch)
              => Session(registered', dbipx_local_addr') = Drained(batch)
       /\ Len(udp_out') > Len(udp_out) =>
            /\ udp_out'[Len(udp_out')].src.network = dbipx_local_addr'.network
            /\ udp_out'[Len(udp_out')].src.node = dbipx_local_addr'.node]_vars

\* a packet was sent under the address of node 2, a later call of a command
\* without a case in the switch polled the reply that changed it to node 1
C11_Witness ==
  /\ pc = "hooked"
  /\ Len(udp_out) = 1
  /\ udp_out[1].src.node = 2
  /\ dbipx_local_addr.node = 1
  /\ ip = [ax |-> RegJunk, cx |-> RegJunk, dx |-> 0]

\* C12: a datagram that carries fewer than 30 bytes of packet data is dropped: a
\* poll that finds only such datagrams leaves the registered flag, the local
\* address, the socket table with its queues and every ECB as they were.
C12_ShortDropped ==
  [][\A batch \in UnderHeaderBatches :
       (\A k \in 1..Len(batch) : DataBytes(batch[k]) < IPX_HEADER_SIZE) =>
         /\ DelayPoll(batch) => UNCHANGED <<registered, dbipx_local_addr, open_sockets, ecb>>
         /\ IPX_ISR(NoOpCall, batch) => UNCHANGED <<registered, dbipx_local_addr, open_sockets, ecb>>]_vars

\* C13: a send whose fragment sizes truly sum to more than 576 fails with the
\* too-large code and hands nothing to the transport, whatever the sizes.
C13_NoWrapPastMTU ==
  [][\A call \in SendCalls({1}, {SOCK_A}, WrapFragLists) :
       (TrueSum(call.frags) > MTU /\ Called(call)) =>
         /\ ip'.ax = RC_FAIL
         /\ udp_out' = udp_out
         /\ ecb'[call.essi].completion_code = RC_FAIL]_vars

\* C14: the control packet has been sent once when the initial wait begins, and
\* the sends at the starts of the rounds come on top of it.
C14_SendBeforeWait ==
  /\ pc = "delay_first" => reg_sent >= 1
  /\ now > 0 => reg_sent >= 1
  /\ (pc = "exit" /\ error = "noresponse") => reg_sent = REG_ATTEMPTS + 1

\* C15: ListenForPacket on an open socket answers success, puts the ECB at the
\* front of the socket's queue, the ECBs posted earlier behind it in their order,
\* sets in_use, and sets the completion code to Pending whatever it was before:
\* an ECB that carried the Failure code does not carry it any more.
C15_ListenSetsPending ==
  [][\A call \in ListenCalls(ECBs, {SOCK_A}) :
       (IsOpen(open_sockets, SOCK_A) /\ Idle(call) /\ Called(call)) =>
         LET s == FindSocket(open_sockets, SOCK_A) IN
         /\ ip'.ax = RC_OK
         /\ open_sockets'[s].ecbs = call.essi
         /\ ecb'[call.essi].next_ecb = open_sockets[s].ecbs
         /\ \A e \in ECBs \ {call.essi} : ecb'[e] = ecb[e]
         /\ ecb'[call.essi].in_use = 1
         /\ ecb'[call.essi].completion_code # RC_FAIL]_vars

\* C16: every packet SendPacket hands to the transport carries, in the bytes
\* that go on the wire, the network and node of the local address as its source,
\* the socket field of the ECB as its source socket and its own byte count as
\* its length, for every accepted size from 0 to 576.
C16_SentHeader ==
  [][\A call \in SendCalls({1}, {SOCK_A}, FragLists) :
       (TrueSum(call.frags) <= MTU /\ Called(call)) =>
         LET p == udp_out'[Len(udp_out')] IN
         /\ Len(udp_out') = Len(udp_out) + 1
         /\ p.len = TrueSum(call.frags)
         /\ p.src.network = dbipx_local_addr'.network
         /\ p.src.node = dbipx_local_addr'.node
         /\ p.src.socket = call.socket
         /\ p.length # Absent
         /\ ntohs(p.length) = p.len]_vars

CloseCall(n) == Call(IPX_CMD_CLOSE_SOCKET, htons(n), NULL, 0, <<>>)

\* C17: CloseSocket(n) for an open n frees n's slot and nothing else: every other
\* slot keeps its number and its queue and every ECB is as it was, those queued
\* on n still in use; CloseSocket(0) and CloseSocket of a number that is not open
\* change nothing. An ECB in use is never completed afterwards.
C17_CloseFrame ==
  /\ [][\A n \in {0, SOCK_A} :
          Called(CloseCall(n)) =>
            /\ ecb' = ecb
            /\ udp_out' = udp_out
            /\ IF n # 0 /\ IsOpen(open_sockets, n)
                 THEN LET s == FindSocket(open_sockets, n) IN
                      /\ ~IsOpen(open_sockets', n)
                      /\ \A t \in Slots \ {s} : open_sockets'[t] = open_sockets[t]
                 ELSE open_sockets' = open_sockets]_vars
  /\ [][\A e \in ECBs : ecb[e].in_use = 1 => ecb'[e] = ecb[e]]_vars

\* SOCK_A has been closed with ECB 1 in its queue, SOCK_B is open with ECB 2 in
\* its queue
C17_Witness ==
  /\ ip = [ax |-> RegJunk, cx |-> RegJunk, dx |-> htons(SOCK_A)]
  /\ ~IsOpen(open_sockets, SOCK_A)
  /\ IsOpen(open_sockets, SOCK_B)
  /\ open_sockets[FindSocket(open_sockets, SOCK_B)].ecbs = 2
  /\ \E s \in Slots : open_sockets[s].socket = 0 /\ open_sockets[s].ecbs = 1
  /\ ecb[1].in_use = 1
  /\ ecb[2].in_use = 1

\* C18: whatever calls and datagrams came, no two occupied slots hold the same
\* number and at most 8 sockets are open; a successful OpenSocket returns a number
\* that is not 0 and occupies a slot with it.
C18_TableInvariant ==
  /\ [](\A s, t \in Slots :
          (s # t /\ open_sockets[s].socket # 0) => open_sockets[s].socket # open_sockets[t].socket)
  /\ [](Cardinality({s \in Slots : open_sockets[s].socket # 0}) = Cardinality(OpenNumbers(open_sockets)))
  /\ [](Cardinality(OpenNumbers(open_sockets)) <= MAX_OPEN_SOCKETS)
  /\ [][\A n \in {0, SOCK_A} :
          (ip'.ax = RC_OK /\ Called(OpenCall(n))) =>
            /\ ntohs(ip'.dx) # 0
            /\ ~IsOpen(open_sockets, ntohs(ip'.dx))
            /\ IsOpen(open_sockets', ntohs(ip'.dx))]_vars

\* the ECBs met from e on, following next_ecb for at most n links
RECURSIVE Walk(_, _, _)
Walk(ecbs, e, n) ==
  IF e = NULL \/ n = 0 THEN <<>> ELSE <<e>> \o Walk(ecbs, ecbs[e].next_ecb, n - 1)

\* the receive queue of slot s, cut after one link more than there are ECBs
QueueOf(s) == Walk(ecb, open_sockets[s].ecbs, Cardinality(ECBs) + 1)

\* C19: callers submitting idle ECBs only, every ECB is linked in the queue of at
\* most one slot and at most once in it: no queue has a cycle, no two queues
\* share an ECB.
C19_OneQueuePerEcb ==
  /\ \A s \in Slots : \A j, k \in 1..Len(QueueOf(s)) : j # k => QueueOf(s)[j] # QueueOf(s)[k]
  /\ \A s, t \in Slots : s # t =>
       \A j \in 1..Len(QueueOf(s)), k \in 1..Len(QueueOf(t)) : QueueOf(s)[j] # QueueOf(t)[k]

\* the candidates the probe of OpenSocket(0) looks up before it stops
Examined(tbl) == AUTO_SOCKET_BASE..ProbeSocket(tbl, AUTO_SOCKET_BASE)

\* C20: in every table the program reaches, the probe of OpenSocket(0) stops after
\* at most 9 candidates, short of the 16-bit limit, and every number OpenSocket(0)
\* assigns lies in 0x4002..0x4009.
C20_ProbeTerminates ==
  /\ [](/\ Cardinality(Examined(open_sockets)) \in 1..(MAX_OPEN_SOCKETS + 1)
        /\ ProbeSocket(open_sockets, AUTO_SOCKET_BASE) < WORD
        /\ \A n \in Examined(open_sockets) \ {ProbeSocket(open_sockets, AUTO_SOCKET_BASE)} :
             IsOpen(open_sockets, n))
  /\ [][(ip'.ax = RC_OK /\ Called(OpenCall(0))) =>
          ntohs(ip'.dx) \in AUTO_SOCKET_BASE..(AUTO_SOCKET_BASE + MAX_OPEN_SOCKETS - 1)]_vars

\* OpenSocket(0) has filled the table with 0x4002..0x4009, and a further
\* OpenSocket(0), whose probe looked up 9 candidates, found the table full
C20_Witness ==
  /\ OpenNumbers(open_sockets) = AUTO_SOCKET_BASE..(AUTO_SOCKET_BASE + MAX_OPEN_SOCKETS - 1)
  /\ open_sockets[MAX_OPEN_SOCKETS].socket = AUTO_SOCKET_BASE + MAX_OPEN_SOCKETS - 1
  /\ Cardinality(Examined(open_sockets)) = MAX_OPEN_SOCKETS + 1
  /\ ip = [ax |-> RC_TABLE_FULL, cx |-> RegJunk, dx |-> 0]

====
